---- MODULE Spec2Model ----
(***************************************************************************)
(* Product entity store (service/models.py): the Product record, its      *)
(* validation, its create/update/delete operations on the shared          *)
(* db.session, and its lookup and filter queries.                         *)
(*                                                                         *)
(* The committed content of the product table is `table`.  The Product    *)
(* objects the caller holds are the slots of `ent`.  All objects share    *)
(* the one db.session: a commit flushes every modified persistent object, *)
(* a rollback expires every persistent object and expunges pending ones.  *)
(* Queries are evaluated on the committed rows.                           *)
(***************************************************************************)
EXTENDS Integers, Sequences, FiniteSets, TLC

VARIABLES table, nextId, ent, last

vars == <<table, nextId, ent, last>>

(***************************************************************************)
(* Bounds                                                                  *)
(***************************************************************************)
\* ids the table's sequence may hand out
MaxId == 2
\* rows of the tables a query is run on
MaxRows == 2

(***************************************************************************)
(* Python values.  Every value carries its type tag, so that isinstance,  *)
(* `is None`, truthiness and == are computed as Python computes them.     *)
(* "absent" is not a value: it marks a key that a mapping does not hold.  *)
(***************************************************************************)
NoneV == [t |-> "none", s |-> "", n |-> 0, b |-> FALSE]
Absent == [t |-> "absent", s |-> "", n |-> 0, b |-> FALSE]
Str(x) == [t |-> "str", s |-> x, n |-> 0, b |-> FALSE]
Num(x) == [t |-> "num", s |-> "", n |-> x, b |-> FALSE]
Bool(x) == [t |-> "bool", s |-> "", n |-> 0, b |-> x]

\* bool(v)
Truthy(v) ==
    CASE v.t = "none" -> FALSE
      [] v.t = "str" -> v.s # ""
      [] v.t = "num" -> v.n # 0
      [] v.t = "bool" -> v.b
      [] OTHER -> FALSE

\* column widths of the table schema
MaxNameLen == 63
MaxDescLen == 255

LongName == "aaaaaaaaaaaaaaaaaaaaaaaaaaaaaaaaaaaaaaaaaaaaaaaaaaaaaaaaaaaaaaaa"

Ent == {"e1", "e2"}
NoEnt == "-"

(***************************************************************************)
(* Product objects and table rows                                          *)
(***************************************************************************)
\* A Product object.  st is its state in db.session: "none" (the slot holds
\* no object), "transient" (constructed, never persisted) or "persistent".
Product(st, id, name, description, price, available) ==
    [st |-> st, id |-> id, name |-> name, description |-> description,
     price |-> price, available |-> available]

Unbound == Product("none", NoneV, NoneV, NoneV, NoneV, NoneV)

\* Product(**kw): a keyword that is not given leaves the attribute None
Arg(v) == IF v = Absent THEN NoneV ELSE v

Construct(kw) ==
    Product("transient", Arg(kw.id), Arg(kw.name), Arg(kw.description),
            Arg(kw.price), Arg(kw.available))

Row(k, name, description, price, available) ==
    [id |-> k, name |-> name, description |-> description,
     price |-> price, available |-> available]

RowOfProduct(p) == Row(p.id.n, p.name, p.description, p.price, p.available)

HasRow(tbl, k) == \E r \in tbl : r.id = k

RowAt(tbl, k) == CHOOSE r \in tbl : r.id = k

\* the object of a row, as the session loads it
Loaded(r) ==
    Product("persistent", Num(r.id), r.name, r.description, r.price, r.available)

(***************************************************************************)
(* Table schema: what the database accepts in each column                  *)
(***************************************************************************)
\* a name column without a length
NameColumnAnyLength(v) == v.t = "str"

\* name = db.Column(db.String(63), nullable=False)
NameColumnOK(v) == v.t = "str" /\ Len(v.s) <= MaxNameLen

DescriptionColumnOK(v) == v.t = "none" \/ (v.t = "str" /\ Len(v.s) <= MaxDescLen)

PriceColumnOK(v) == v.t \in {"none", "num"}

AvailableColumnOK(v) == v.t \in {"none", "bool"}

ColumnsOK(p) ==
    /\ NameColumnOK(p.name)
    /\ DescriptionColumnOK(p.description)
    /\ PriceColumnOK(p.price)
    /\ AvailableColumnOK(p.available)

\* an INSERT that stores the value as it is
AvailableKept(v) == v

\* available = db.Column(db.Boolean, default=True): an INSERT without a
\* value for the column stores True
AvailableDefault(v) == IF v.t = "none" THEN Bool(TRUE) ELSE v

(***************************************************************************)
(* db.session: flush, commit, rollback                                     *)
(***************************************************************************)
Persistent(ents) == {e \in Ent : ents[e].st = "persistent"}

\* a persistent object whose attributes differ from its row
Modified(tbl, ents) ==
    {e \in Persistent(ents) : /\ HasRow(tbl, ents[e].id.n)
                              /\ RowOfProduct(ents[e]) # RowAt(tbl, ents[e].id.n)}

\* the UPDATE statements of a flush are accepted by the database
FlushOK(tbl, ents, skip) ==
    \A e \in Modified(tbl, ents) \ {skip} : ColumnsOK(ents[e])

FlushNothing(tbl, ents) == tbl

\* the table after the UPDATE statements of a flush
FlushUpdates(tbl, ents) ==
    {IF \E e \in Persistent(ents) : ents[e].id.n = r.id
       THEN RowOfProduct(ents[CHOOSE e \in Persistent(ents) : ents[e].id.n = r.id])
       ELSE r : r \in tbl}

\* expired attributes are loaded again from the table
Refresh(tbl, ents) ==
    [e \in Ent |-> IF ents[e].st = "persistent" /\ HasRow(tbl, ents[e].id.n)
                     THEN Loaded(RowAt(tbl, ents[e].id.n))
                     ELSE ents[e]]

CommitKeepsFlush(ok, old, new) == new

\* db.session.commit(): the committed table, or the old one when it raises
Commit(ok, old, new) == IF ok THEN new ELSE old

\* the id the table's sequence gives to an INSERT
NewId(tbl, nid) == nid

(***************************************************************************)
(* Outcomes of an operation                                                *)
(***************************************************************************)
DVE == "DataValidationError"

Returned == [outcome |-> "ok", msg |-> "", cause |-> "", rolledBack |-> FALSE]

\* raise DataValidationError(msg) outside of a try block
Raised(msg) == [outcome |-> DVE, msg |-> msg, cause |-> "", rolledBack |-> FALSE]

\* except Exception as e: db.session.rollback(); raise DataValidationError(e) from e
RolledBack(cause) == [outcome |-> DVE, msg |-> cause, cause |-> cause, rolledBack |-> TRUE]

\* an exception that no handler of the operation catches
Escaped(kind) == [outcome |-> kind, msg |-> "", cause |-> kind, rolledBack |-> FALSE]

\* what makes a commit raise: the storage itself, or a statement of the flush
CommitCause(fails) == IF fails THEN "OperationalError" ELSE "DatabaseError"

(***************************************************************************)
(* Product.create, Product.update, Product.delete                          *)
(***************************************************************************)
\* create without db.session.add(self): the commit stores no new row
createWithoutAdd(tbl, nid, ents, e, fails) ==
    LET p == [ents[e] EXCEPT !.id = NoneV]
        ok == /\ ents[e].st = "transient"
              /\ ~fails
              /\ FlushOK(tbl, ents, NoEnt)
        tbl2 == Commit(ok, tbl, FlushUpdates(tbl, ents))
        ents2 == IF ents[e].st = "transient" THEN [ents EXCEPT ![e] = p] ELSE ents
    IN  [table |-> tbl2, nextId |-> nid, ent |-> Refresh(tbl2, ents2),
         out |-> IF ok THEN Returned ELSE RolledBack(CommitCause(fails))]

\* create on a persistent object flushes UPDATE ... SET id = NULL, which the
\* primary key refuses: the commit raises whatever the storage does.
create(tbl, nid, ents, e, fails) ==
    LET p == [ents[e] EXCEPT !.id = NoneV]
        k == NewId(tbl, nid)
        row == Row(k, p.name, p.description, p.price, AvailableDefault(p.available))
        ok == /\ ents[e].st = "transient"
              /\ ~fails
              /\ ColumnsOK(p)
              /\ FlushOK(tbl, ents, NoEnt)
        tbl2 == Commit(ok, tbl, FlushUpdates(tbl, ents) \cup {row})
    IN  IF ok
        THEN [table |-> tbl2, nextId |-> nid + 1,
              ent |-> Refresh(tbl2, [ents EXCEPT ![e] = Loaded(row)]),
              out |-> Returned]
        ELSE [table |-> tbl2, nextId |-> nid,
              ent |-> Refresh(tbl2, IF ents[e].st = "transient"
                                      THEN [ents EXCEPT ![e] = p] ELSE ents),
              out |-> RolledBack(CommitCause(fails))]

\* float(self.price) raises ValueError for a str that is no numeral
FloatRaises(v) == v.t = "str"

IdUnsetNever(p) == FALSE

\* not self.id
IdUnset(p) == ~Truthy(p.id)

PriceRefusedAtZero(v) == v.t = "none" \/ (v.t = "num" /\ v.n <= 0)

\* self.price is None or float(self.price) < float(0.00)
PriceRefused(v) == v.t = "none" \/ (v.t = "num" /\ v.n < 0)

update(tbl, nid, ents, e, fails) ==
    LET p == ents[e]
        same == [table |-> tbl, nextId |-> nid, ent |-> ents]
        ok == ~fails /\ FlushOK(tbl, ents, NoEnt)
        tbl2 == Commit(ok, tbl, FlushUpdates(tbl, ents))
    IN  IF IdUnset(p)
        THEN same @@ [out |-> Raised("Update called with empty ID field")]
        ELSE IF p.price.t # "none" /\ FloatRaises(p.price)
        THEN same @@ [out |-> Escaped("ValueError")]
        ELSE IF PriceRefused(p.price)
        THEN same @@ [out |-> Raised("Price must be a positive number")]
        ELSE [table |-> tbl2, nextId |-> nid, ent |-> Refresh(tbl2, ents),
              out |-> IF ok THEN Returned ELSE RolledBack(CommitCause(fails))]

DeletedNothing(tbl, k) == tbl

\* the table after the DELETE statement of a flush
Deleted(tbl, k) == {r \in tbl : r.id # k}

\* db.session.delete raises InvalidRequestError for an object that was
\* never persisted; a deleted object leaves the session with the commit.
delete(tbl, nid, ents, e, fails) ==
    LET p == ents[e]
        ok == /\ p.st = "persistent"
              /\ ~fails
              /\ FlushOK(tbl, ents, e)
        tbl2 == Commit(ok, tbl, Deleted(FlushUpdates(tbl, ents), p.id.n))
    IN  IF ok
        THEN [table |-> tbl2, nextId |-> nid,
              ent |-> Refresh(tbl2, [ents EXCEPT ![e] = Unbound]),
              out |-> Returned]
        ELSE [table |-> tbl2, nextId |-> nid, ent |-> Refresh(tbl2, ents),
              out |-> RolledBack(IF p.st = "persistent" THEN CommitCause(fails)
                                 ELSE "InvalidRequestError")]

(***************************************************************************)
(* Product.serialize, Product.deserialize                                  *)
(***************************************************************************)
\* A request body or argument: a dict (an absent key holds Absent), or
\* something that is no mapping (kind "str", "none").
Dict(id, name, description, available, price) ==
    [kind |-> "dict", id |-> id, name |-> name, description |-> description,
     available |-> available, price |-> price]

NotADict(kind) ==
    [kind |-> kind, id |-> Absent, name |-> Absent, description |-> Absent,
     available |-> Absent, price |-> Absent]

NoData == NotADict("-")

serializeWithoutPrice(p) == Dict(p.id, p.name, p.description, p.available, Absent)

serialize(p) == Dict(p.id, p.name, p.description, p.available, p.price)

IsBoolOrStr(v) == v.t \in {"bool", "str"}

\* isinstance(v, bool)
IsBool(v) == v.t = "bool"

\* str(type(v))
TypeName(v) ==
    CASE v.t = "none" -> "<class 'NoneType'>"
      [] v.t = "str" -> "<class 'str'>"
      [] v.t = "num" -> "<class 'int'>"
      [] OTHER -> "<class 'bool'>"

Missing(key) == "Invalid product: missing " \o key

\* deserialize that also takes the id of the input
deserializeReadsId(p, data) ==
    LET p0 == [p EXCEPT !.id = Arg(data.id)]
        p1 == [p0 EXCEPT !.name = data.name]
        p2 == [p1 EXCEPT !.description = data.description]
        p3 == [p2 EXCEPT !.available = data.available]
        p4 == [p3 EXCEPT !.price = data.price]
    IN  IF data.kind # "dict"
        THEN [p |-> p, out |-> [Raised("Invalid product: body of request contained bad or no data ")
                                  EXCEPT !.cause = "TypeError"]]
        ELSE IF data.name = Absent
        THEN [p |-> p0, out |-> [Raised(Missing("name")) EXCEPT !.cause = "KeyError"]]
        ELSE IF data.description = Absent
        THEN [p |-> p1, out |-> [Raised(Missing("description")) EXCEPT !.cause = "KeyError"]]
        ELSE IF data.available = Absent
        THEN [p |-> p2, out |-> [Raised(Missing("available")) EXCEPT !.cause = "KeyError"]]
        ELSE IF ~IsBool(data.available)
        THEN [p |-> p2, out |-> Raised("Invalid type for boolean [available]: "
                                       \o TypeName(data.available))]
        ELSE IF data.price = Absent
        THEN [p |-> p3, out |-> [Raised(Missing("price")) EXCEPT !.cause = "KeyError"]]
        ELSE [p |-> p4, out |-> Returned]

\* The assignments run in the order of the code; the first one that raises
\* ends the call and keeps the assignments made before it.
deserialize(p, data) ==
    LET p1 == [p EXCEPT !.name = data.name]
        p2 == [p1 EXCEPT !.description = data.description]
        p3 == [p2 EXCEPT !.available = data.available]
        p4 == [p3 EXCEPT !.price = data.price]
    IN  IF data.kind # "dict"
        THEN [p |-> p, out |-> [Raised("Invalid product: body of request contained bad or no data ")
                                  EXCEPT !.cause = "TypeError"]]
        ELSE IF data.name = Absent
        THEN [p |-> p, out |-> [Raised(Missing("name")) EXCEPT !.cause = "KeyError"]]
        ELSE IF data.description = Absent
        THEN [p |-> p1, out |-> [Raised(Missing("description")) EXCEPT !.cause = "KeyError"]]
        ELSE IF data.available = Absent
        THEN [p |-> p2, out |-> [Raised(Missing("available")) EXCEPT !.cause = "KeyError"]]
        ELSE IF ~IsBool(data.available)
        THEN [p |-> p2, out |-> Raised("Invalid type for boolean [available]: "
                                       \o TypeName(data.available))]
        ELSE IF data.price = Absent
        THEN [p |-> p3, out |-> [Raised(Missing("price")) EXCEPT !.cause = "KeyError"]]
        ELSE [p |-> p4, out |-> Returned]

(***************************************************************************)
(* Queries                                                                 *)
(***************************************************************************)
\* Product.all()
all(tbl) == tbl

\* find that returns the first row of the table
findAny(tbl, by_id) == IF tbl = {} THEN {} ELSE {CHOOSE r \in tbl : TRUE}

\* Product.find(by_id): the row, or nothing
find(tbl, by_id) == {r \in tbl : r.id = by_id}

\* column == value in a filter: IS NULL for None, never true of a NULL
\* column otherwise
SqlEq(col, v) == IF v.t = "none" THEN col.t = "none" ELSE col = v

find_by_name(tbl, name) == {r \in tbl : SqlEq(r.name, name)}

find_by_description(tbl, description) ==
    {r \in tbl : SqlEq(r.description, description)}

\* not isinstance(available, bool): find_by_availability raises TypeError
find_by_availabilityRaises(available) == ~IsBool(available)

\* a filter on the column itself, whatever the argument
find_by_availabilityTruthy(tbl, available) == {r \in tbl : Truthy(r.available)}

find_by_availability(tbl, available) == {r \in tbl : SqlEq(r.available, available)}

find_by_price(tbl, price) == {r \in tbl : SqlEq(r.price, price)}

\* args.get(key)
Get(v) == IF v = Absent THEN NoneV ELSE v

\* find_by_args with the price tested by truthiness
find_by_argsPriceTruthy(tbl, args) ==
    LET q1 == IF Truthy(Get(args.name))
              THEN find_by_name(tbl, args.name) ELSE tbl
        q2 == IF Truthy(Get(args.description))
              THEN find_by_description(q1, args.description) ELSE q1
        q3 == IF Get(args.available).t # "none"
              THEN find_by_availability(q2, args.available) ELSE q2
        q4 == IF Truthy(Get(args.price))
              THEN find_by_price(q3, args.price) ELSE q3
    IN  q4

\* find_by_args with available tested by truthiness
find_by_argsAvailableTruthy(tbl, args) ==
    LET q1 == IF Truthy(Get(args.name))
              THEN find_by_name(tbl, args.name) ELSE tbl
        q2 == IF Truthy(Get(args.description))
              THEN find_by_description(q1, args.description) ELSE q1
        q3 == IF Truthy(Get(args.available))
              THEN find_by_availability(q2, args.available) ELSE q2
        q4 == IF Get(args.price).t # "none"
              THEN find_by_price(q3, args.price) ELSE q3
    IN  q4

\* each filter narrows the query built so far
find_by_args(tbl, args) ==
    LET q1 == IF Truthy(Get(args.name))
              THEN find_by_name(tbl, args.name) ELSE tbl
        q2 == IF Truthy(Get(args.description))
              THEN find_by_description(q1, args.description) ELSE q1
        q3 == IF Get(args.available).t # "none"
              THEN find_by_availability(q2, args.available) ELSE q2
        q4 == IF Get(args.price).t # "none"
              THEN find_by_price(q3, args.price) ELSE q3
    IN  q4

(***************************************************************************)
(* Product.from_args                                                       *)
(***************************************************************************)
\* except Exception as e: raise DataValidationError(e) from e
Wrapped(out) ==
    [outcome |-> DVE, msg |-> out.msg, cause |-> out.outcome,
     rolledBack |-> out.rolledBack]

\* from_args without the call of create: the product is returned unsaved
from_argsWithoutCreate(tbl, nid, ents, e, args, fails) ==
    LET d == deserialize(Construct(Dict(Absent, Absent, Absent, Absent, Absent)), args)
    IN  IF d.out.outcome # "ok"
        THEN [table |-> tbl, nextId |-> nid, ent |-> ents,
              out |-> Wrapped(d.out), products |-> {}]
        ELSE [table |-> tbl, nextId |-> nid, ent |-> [ents EXCEPT ![e] = d.p],
              out |-> Returned, products |-> {e}]

\* The new product takes the free slot e.  When deserialize or create
\* raises, the product is dropped with the frame of the call.
from_args(tbl, nid, ents, e, args, fails) ==
    LET d == deserialize(Construct(Dict(Absent, Absent, Absent, Absent, Absent)), args)
        c == create(tbl, nid, [ents EXCEPT ![e] = d.p], e, fails)
    IN  IF d.out.outcome # "ok"
        THEN [table |-> tbl, nextId |-> nid, ent |-> ents,
              out |-> Wrapped(d.out), products |-> {}]
        ELSE IF c.out.outcome # "ok"
        THEN [table |-> c.table, nextId |-> c.nextId,
              ent |-> [c.ent EXCEPT ![e] = Unbound],
              out |-> Wrapped(c.out), products |-> {}]
        ELSE [table |-> c.table, nextId |-> c.nextId, ent |-> c.ent,
              out |-> Returned, products |-> {e}]

(***************************************************************************)
(* The HTTP facade: responses, marshalling, routing                        *)
(***************************************************************************)
\* A response: its status, its JSON body (shape "object", "list" or "empty":
\* one object in body, or the objects of a list in items), its Location
\* header and the message of an error body.
Reply(status, shape, body, items, location, message) ==
    [status |-> status, shape |-> shape, body |-> body, items |-> items,
     location |-> location, message |-> message]

NoLocation == ""

\* abort(code, message)
abort(code, message) == Reply(code, "empty", NoData, {}, NoLocation, message)

\* the handler of DataValidationError: 400 with the text of the error
request_validation_error(message) == abort(400, message)

\* an exception that nothing handles: 500
Unhandled(kind) == abort(500, "Internal Server Error")

\* str(v) of a value
StrOf(v) ==
    CASE v.t = "str" -> v.s
      [] v.t = "num" -> ToString(v.n)
      [] v.t = "bool" -> IF v.b THEN "True" ELSE "False"
      [] OTHER -> "None"

\* fields.Integer, fields.String, fields.Float, fields.Boolean: None stays
\* None, any other value is converted to the type of the field
FormatInteger(v) == IF v.t = "none" THEN NoneV ELSE Num(v.n)

FormatString(v) == IF v.t = "none" THEN NoneV ELSE Str(StrOf(v))

FormatFloat(v) == IF v.t = "none" THEN NoneV ELSE Num(v.n)

FormatBoolean(v) == IF v.t = "none" THEN NoneV ELSE Bool(Truthy(v))

\* marshal(data, product_model) of one object or mapping
marshal(d) ==
    Dict(FormatInteger(d.id), FormatString(d.name), FormatString(d.description),
         FormatBoolean(d.available), FormatFloat(d.price))

\* marshal of a list of products
marshal_list(rows) == {marshal(serialize(Loaded(r))) : r \in rows}

\* marshal of a lazy query: it is no list or tuple, so it is taken for one
\* object, and each field is read from it as an attribute that a query
\* does not have
marshal_query(rows) == marshal(Dict(NoneV, NoneV, NoneV, NoneV, NoneV))

\* the path of the route "/<int:product_id>" of the namespace "products"
\* under the prefix "/api"
ProductPath(product_id) == "/api/products/" \o ToString(product_id)

\* the ids a path may name
PathIds == 0..(MaxId + 1)

\* the product_id that the route reads from a path, -1 when it matches none
RouteId(path) ==
    IF \E k \in PathIds : ProductPath(k) = path
    THEN CHOOSE k \in PathIds : ProductPath(k) = path
    ELSE -1

\* a Location that names the collection
url_forCollection(product_id) == "/api/products"

\* api.url_for(ProductResource, product_id=product_id)
url_for(product_id) == ProductPath(product_id)

\* no exception of the model was raised in the request
NoneRaised == [by |-> "", msg |-> ""]

RaisedBy(by, out) == [by |-> by, msg |-> out.msg]

\* the session of a request holds the one product of the request
Session(p) == [e \in Ent |-> IF e = "e1" THEN p ELSE Unbound]

(***************************************************************************)
(* ProductCollection.post, ProductResource.get, put, delete                *)
(***************************************************************************)
\* a handler's result: the table, the sequence, the response, and the
\* DataValidationError that an operation of the model raised, if any
Handled(tbl, nid, resp, raised) ==
    [table |-> tbl, nextId |-> nid, resp |-> resp, raised |-> raised]

\* the response to an operation that did not return
Failed(out) ==
    IF out.outcome = DVE THEN request_validation_error(out.msg)
    ELSE Unhandled(out.outcome)

\* post whose except clause does not abort: create runs on what
\* deserialize has assigned
ProductCollection_postWithoutAbort(tbl, nid, payload, fails) ==
    LET d == deserialize(Construct(Dict(Absent, Absent, Absent, Absent, Absent)), payload)
        c == create(tbl, nid, Session(d.p), "e1", fails)
        raised == IF d.out.outcome # "ok" THEN RaisedBy("deserialize", d.out)
                  ELSE IF c.out.outcome # "ok" THEN RaisedBy("create", c.out)
                  ELSE NoneRaised
    IN  IF c.out.outcome # "ok"
        THEN Handled(c.table, c.nextId, Failed(c.out), raised)
        ELSE Handled(c.table, c.nextId,
                     Reply(201, "object", marshal(serialize(c.ent["e1"])), {},
                           url_for(c.ent["e1"].id.n), ""),
                     raised)

\* deserialize is guarded by the handler, create is not
ProductCollection_post(tbl, nid, payload, fails) ==
    LET d == deserialize(Construct(Dict(Absent, Absent, Absent, Absent, Absent)), payload)
        c == create(tbl, nid, Session(d.p), "e1", fails)
    IN  IF d.out.outcome # "ok"
        THEN Handled(tbl, nid, abort(400, d.out.msg), RaisedBy("deserialize", d.out))
        ELSE IF c.out.outcome # "ok"
        THEN Handled(c.table, c.nextId, Failed(c.out), RaisedBy("create", c.out))
        ELSE Handled(c.table, c.nextId,
                     Reply(201, "object", marshal(serialize(c.ent["e1"])), {},
                           url_for(c.ent["e1"].id.n), ""),
                     NoneRaised)

\* the product that find returned
Found(tbl, product_id) == Loaded(CHOOSE r \in find(tbl, product_id) : TRUE)

ProductResource_get(tbl, product_id) ==
    IF find(tbl, product_id) = {}
    THEN abort(404, "Product with id " \o ToString(product_id) \o " was not found")
    ELSE Reply(200, "object", marshal(serialize(Found(tbl, product_id))), {},
               NoLocation, "")

\* neither deserialize nor update is guarded by the handler; what the
\* request changed and did not commit goes with the session of the request
ProductResource_put(tbl, nid, product_id, payload, fails) ==
    LET d == deserialize(Found(tbl, product_id), payload)
        u == update(tbl, nid, Session(d.p), "e1", fails)
    IN  IF find(tbl, product_id) = {}
        THEN Handled(tbl, nid,
                     abort(404, "Product with id " \o ToString(product_id) \o " not found"),
                     NoneRaised)
        ELSE IF d.out.outcome # "ok"
        THEN Handled(tbl, nid, Failed(d.out), RaisedBy("deserialize", d.out))
        ELSE IF u.out.outcome # "ok"
        THEN Handled(u.table, u.nextId, Failed(u.out),
                     IF u.out.outcome = DVE THEN RaisedBy("update", u.out) ELSE NoneRaised)
        ELSE Handled(u.table, u.nextId,
                     Reply(200, "object", marshal(serialize(u.ent["e1"])), {},
                           NoLocation, ""),
                     NoneRaised)

\* delete that answers 404 for a product that is not stored
ProductResource_deleteStrict(tbl, nid, product_id, fails) ==
    LET x == delete(tbl, nid, Session(Found(tbl, product_id)), "e1", fails)
    IN  IF find(tbl, product_id) = {}
        THEN Handled(tbl, nid,
                     abort(404, "Product with id " \o ToString(product_id) \o " was not found"),
                     NoneRaised)
        ELSE IF x.out.outcome # "ok"
        THEN Handled(x.table, x.nextId, Failed(x.out), RaisedBy("delete", x.out))
        ELSE Handled(x.table, x.nextId, Reply(204, "empty", NoData, {}, NoLocation, ""),
                     NoneRaised)

ProductResource_delete(tbl, nid, product_id, fails) ==
    LET x == delete(tbl, nid, Session(Found(tbl, product_id)), "e1", fails)
    IN  IF find(tbl, product_id) = {}
        THEN Handled(tbl, nid, Reply(204, "empty", NoData, {}, NoLocation, ""),
                     NoneRaised)
        ELSE IF x.out.outcome # "ok"
        THEN Handled(x.table, x.nextId, Failed(x.out), RaisedBy("delete", x.out))
        ELSE Handled(x.table, x.nextId, Reply(204, "empty", NoData, {}, NoLocation, ""),
                     NoneRaised)

(***************************************************************************)
(* ProductCollection.get: the list endpoint                                *)
(***************************************************************************)
\* the numbers that the model's query strings spell
PriceRange == (0 - 1)..1

\* float(s) raises ValueError
FloatFails(s) == ~\E n \in PriceRange : ToString(n) = s

\* float(s)
FloatOf(s) == Num(CHOOSE n \in PriceRange : ToString(n) = s)

\* the letters of the model's query strings
LowerChar(c) ==
    CASE c = "A" -> "a" [] c = "E" -> "e" [] c = "F" -> "f" [] c = "L" -> "l"
      [] c = "R" -> "r" [] c = "S" -> "s" [] c = "T" -> "t" [] c = "U" -> "u"
      [] OTHER -> c

\* a comparison that keeps the case
LowerKept(s) == s

\* s.lower()
RECURSIVE Lower(_)
Lower(s) ==
    IF s = "" THEN ""
    ELSE LowerChar(SubSeq(s, 1, 1)) \o Lower(SubSeq(s, 2, Len(s)))

\* A query string: each of name, description, available, price is absent or
\* a string.  product_args.parse_args() gives None for an absent parameter,
\* the string for name and description, bool(string) for available and
\* float(string) for price.
QueryString(name, description, available, price) ==
    [name |-> name, description |-> description, available |-> available,
     price |-> price]

parse_argsFails(query) == query.price # Absent /\ FloatFails(query.price.s)

parse_args(query) ==
    [name |-> Get(query.name),
     description |-> Get(query.description),
     available |-> IF query.available = Absent THEN NoneV
                   ELSE Bool(query.available.s # ""),
     price |-> IF query.price = Absent THEN NoneV ELSE FloatOf(query.price.s)]

ListOf(rows) == Reply(200, "list", NoData, marshal_list(rows), NoLocation, "")

\* The first of description, name, available, price that passes its test
\* decides the response.  find_by_price returns a query, not a list.
ProductCollection_get(tbl, query) ==
    LET args == parse_args(query)
        available_str == Lower(StrOf(query.available))
    IN  IF parse_argsFails(query)
        THEN abort(400, "Input payload validation failed")
        ELSE IF Truthy(args.description)
        THEN ListOf(find_by_description(tbl, args.description))
        ELSE IF Truthy(args.name)
        THEN ListOf(find_by_name(tbl, args.name))
        ELSE IF args.available.t # "none"
        THEN IF available_str = "true"
             THEN ListOf(find_by_availability(tbl, Bool(TRUE)))
             ELSE IF available_str = "false"
             THEN ListOf(find_by_availability(tbl, Bool(FALSE)))
             ELSE abort(400, "Invalid value for 'available'. Must be 'true' or 'false'.")
        ELSE IF Truthy(args.price)
        THEN Reply(200, "object", marshal_query(find_by_price(tbl, args.price)), {},
                   NoLocation, "")
        ELSE ListOf(all(tbl))

(***************************************************************************)
(* The callers' inputs                                                     *)
(***************************************************************************)
\* Product() and a constructor call that supplies an id (as ProductFactory
\* does) and leaves out available
Kwargs ==
    { Dict(Absent, Absent, Absent, Absent, Absent),
      Dict(Num(2), Str("a"), Str("d"), Absent, Num(1)) }

\* request bodies: a valid one that carries an id key, one with a negative
\* price, one with a null name and a null price, one with an empty name,
\* one with a name of 64 characters, one with a price that is no number,
\* one whose available is the string "true", and one that is no dict
Payloads ==
    { Dict(Num(2), Str("b"), Str("d"), Bool(FALSE), Num(0)),
      Dict(Absent, Str("a"), Str("d"), Bool(TRUE), Num(-1)),
      Dict(Absent, NoneV, Str("d"), Bool(TRUE), NoneV),
      Dict(Absent, Str(""), Str("d"), Bool(TRUE), Num(1)),
      Dict(Absent, Str(LongName), Str("d"), Bool(TRUE), Num(1)),
      Dict(Absent, Str("a"), Str("d"), Bool(TRUE), Str("abc")),
      Dict(Absent, Str("b"), Str("d"), Str("true"), Num(1)),
      NotADict("str") }

\* the bodies handed to deserialize alone: every dict over these values of
\* each key, and things that are no dict
Bodies ==
    { Dict(id, name, description, available, price) :
        id \in {Absent, NoneV, Num(2)},
        name \in {Absent, Str(""), Str("a")},
        description \in {Absent, Str("d")},
        available \in {Absent, NoneV, Bool(TRUE), Bool(FALSE), Str("true")},
        price \in {Absent, Num(0), Num(1)} }
    \cup {NotADict("str"), NotADict("none")}

\* the arguments of find_by_args
QueryArgs ==
    { Dict(Absent, name, description, available, price) :
        name \in {Absent, NoneV, Str(""), Str("a")},
        description \in {Absent, Str(""), Str("d")},
        available \in {Absent, NoneV, Bool(TRUE), Bool(FALSE)},
        price \in {Absent, NoneV, Num(0), Num(1)} }

\* the query strings of the list endpoint
QueryStrings ==
    { QueryString(name, description, available, price) :
        name \in {Absent, Str(""), Str("a")},
        description \in {Absent, Str("d")},
        available \in {Absent, Str("true"), Str("False"), Str("yes"), Str("")},
        price \in {Absent, Str("0"), Str("1"), Str("abc")} }

\* the rows a table may hold under one id
RowsOf(k) ==
    { Row(k, name, description, price, available) :
        name \in {Str(""), Str("a")},
        description \in {NoneV, Str("d")},
        price \in {Num(0), Num(1)},
        available \in {Bool(TRUE), Bool(FALSE)} }

\* the tables of at most n rows, with the ids 1..n
RECURSIVE Tables(_)
Tables(n) ==
    IF n = 0 THEN {{}}
    ELSE LET less == Tables(n - 1)
         IN  less \cup {t \cup {r} : t \in less, r \in RowsOf(n)}

Bound(ents) == {e \in Ent : ents[e].st # "none"}

(***************************************************************************)
(* State machine                                                           *)
(***************************************************************************)
Op(op, e, out, data, rows) ==
    [op |-> op, e |-> e, outcome |-> out.outcome, msg |-> out.msg,
     cause |-> out.cause, rolledBack |-> out.rolledBack,
     data |-> data, rows |-> rows]

Init ==
    /\ table = {}
    /\ nextId = 1
    /\ ent = [e \in Ent |-> Unbound]
    /\ last = Op("init", NoEnt, Returned, NoData, {})

\* the caller constructs a Product
New(e, kw) ==
    /\ ent[e].st = "none"
    /\ ent' = [ent EXCEPT ![e] = Construct(kw)]
    /\ last' = Op("new", e, Returned, kw, {})
    /\ UNCHANGED <<table, nextId>>

Deserialize(e, data) ==
    /\ e \in Bound(ent)
    /\ LET r == deserialize(ent[e], data)
       IN  /\ ent' = [ent EXCEPT ![e] = r.p]
           /\ last' = Op("deserialize", e, r.out, data, {})
    /\ UNCHANGED <<table, nextId>>

Store(op, e, r) ==
    /\ table' = r.table
    /\ nextId' = r.nextId
    /\ ent' = r.ent
    /\ last' = Op(op, e, r.out, NoData, {})

Create(e, fails) ==
    /\ e \in Bound(ent)
    /\ nextId <= MaxId
    /\ Store("create", e, create(table, nextId, ent, e, fails))

Update(e, fails) ==
    /\ e \in Bound(ent)
    /\ Store("update", e, update(table, nextId, ent, e, fails))

Delete(e, fails) ==
    /\ e \in Bound(ent)
    /\ Store("delete", e, delete(table, nextId, ent, e, fails))

\* Product.from_args(args); rows are the rows of the returned products
FromArgs(e, args, fails) ==
    /\ ent[e].st = "none"
    /\ nextId <= MaxId
    /\ LET r == from_args(table, nextId, ent, e, args, fails)
       IN  /\ table' = r.table
           /\ nextId' = r.nextId
           /\ ent' = r.ent
           /\ last' = Op("from_args", IF r.products = {} THEN NoEnt ELSE e, r.out, args,
                         {RowOfProduct(r.ent[x]) : x \in r.products})

\* Product.find_by_args(args)
FindByArgs(args) ==
    /\ last' = Op("find_by_args", NoEnt, Returned, args, find_by_args(table, args))
    /\ UNCHANGED <<table, nextId, ent>>

Next ==
    \/ \E e \in Ent, kw \in Kwargs : New(e, kw)
    \/ \E e \in Ent, data \in Payloads : Deserialize(e, data)
    \/ \E e \in Ent, fails \in BOOLEAN : Create(e, fails)
    \/ \E e \in Ent, fails \in BOOLEAN : Update(e, fails)
    \/ \E e \in Ent, fails \in BOOLEAN : Delete(e, fails)

Spec == Init /\ [][Next]_vars

\* the same callers, who also use from_args
NextArgs ==
    \/ Next
    \/ \E e \in Ent, args \in Payloads, fails \in BOOLEAN : FromArgs(e, args, fails)

SpecArgs == Init /\ [][NextArgs]_vars

\* deserialize alone, on one object, with every body
NextDeser ==
    \/ \E kw \in Kwargs : New("e1", kw)
    \/ \E data \in Bodies : Deserialize("e1", data)

SpecDeser == Init /\ [][NextDeser]_vars

\* one query on a table of stored rows
InitQuery ==
    /\ table \in Tables(MaxRows)
    /\ nextId = MaxRows + 1
    /\ ent = [e \in Ent |-> Unbound]
    /\ last = Op("init", NoEnt, Returned, NoData, {})

NextQuery ==
    /\ last.op = "init"
    /\ \E args \in QueryArgs : FindByArgs(args)

SpecQuery == InitQuery /\ [][NextQuery]_vars

(***************************************************************************)
(* The facade as a state machine: requests, each in its own session        *)
(***************************************************************************)
\* the request that was handled last and its response
Http(op, product_id, data, query, fails, r) ==
    [op |-> op, id |-> product_id, data |-> data, query |-> query,
     fails |-> fails, status |-> r.resp.status, shape |-> r.resp.shape,
     body |-> r.resp.body, items |-> r.resp.items,
     location |-> r.resp.location, message |-> r.resp.message,
     raised |-> r.raised]

NoQuery == QueryString(Absent, Absent, Absent, Absent)

InitHttp ==
    /\ table = {}
    /\ nextId = 1
    /\ ent = [e \in Ent |-> Unbound]
    /\ last = Http("init", 0, NoData, NoQuery, FALSE,
                   Handled({}, 1, abort(0, ""), NoneRaised))

Respond(op, product_id, data, query, fails, r) ==
    /\ table' = r.table
    /\ nextId' = r.nextId
    /\ last' = Http(op, product_id, data, query, fails, r)
    /\ UNCHANGED ent

Post(payload, fails) ==
    /\ nextId <= MaxId
    /\ Respond("POST", 0, payload, NoQuery, fails,
               ProductCollection_post(table, nextId, payload, fails))

GetOne(product_id) ==
    Respond("GET", product_id, NoData, NoQuery, FALSE,
            Handled(table, nextId, ProductResource_get(table, product_id), NoneRaised))

Put(product_id, payload, fails) ==
    Respond("PUT", product_id, payload, NoQuery, fails,
            ProductResource_put(table, nextId, product_id, payload, fails))

DeleteOne(product_id, fails) ==
    Respond("DELETE", product_id, NoData, NoQuery, fails,
            ProductResource_delete(table, nextId, product_id, fails))

List(query) ==
    Respond("LIST", 0, NoData, query, FALSE,
            Handled(table, nextId, ProductCollection_get(table, query), NoneRaised))

NextHttp ==
    \/ \E payload \in Payloads, fails \in BOOLEAN : Post(payload, fails)
    \/ \E k \in PathIds : GetOne(k)
    \/ \E k \in PathIds, payload \in Payloads, fails \in BOOLEAN : Put(k, payload, fails)
    \/ \E k \in PathIds, fails \in BOOLEAN : DeleteOne(k, fails)
    \/ \E query \in QueryStrings : List(query)

SpecHttp == InitHttp /\ [][NextHttp]_vars
(***************************************************************************)
(* Properties of create, update and delete                                 *)
(***************************************************************************)
\* the step is operation op on object e
Did(op, e) == last'.op = op /\ last'.e = e

Ids(tbl) == {r.id : r \in tbl}

\* C1: a create() that succeeds leaves the entity with a non-null id that no
\* other stored product has and that no product had before, and find(id)
\* then returns one record whose name, description, price and available are
\* those of the entity (the values it was created with; available is the
\* given boolean whenever one was given).
C1_CreateAssignsFreshId ==
    [][\A e \in Ent :
         (Did("create", e) /\ last'.outcome = "ok") =>
            LET p == ent[e]
                q == ent'[e]
            IN  /\ q.id.t = "num"
                /\ Cardinality({r \in table' : r.id = q.id.n}) = 1
                /\ q.id.n \notin Ids(table)
                /\ \A x \in Ent \ {e} : ent'[x].st = "persistent" => ent'[x].id # q.id
                /\ \E r \in find(table', q.id.n) :
                      /\ find(table', q.id.n) = {r}
                      /\ r.name = q.name /\ r.name = p.name
                      /\ r.description = q.description /\ r.description = p.description
                      /\ r.price = q.price /\ r.price = p.price
                      /\ r.available = q.available
                      /\ (p.available.t # "none" => r.available = p.available)]_vars

\* a create has just succeeded while another product is stored
C1_Witness ==
    /\ last.op = "create"
    /\ last.outcome = "ok"
    /\ Cardinality(table) = 2

\* C2: a successful update() of a persisted product (its price is then a
\* number >= 0) makes the row of its id carry the entity's name, description,
\* price and available, keeps the id, and adds or removes no row.
C2_UpdateWritesRow ==
    [][\A e \in Ent :
         (Did("update", e) /\ last'.outcome = "ok" /\ ent[e].st = "persistent") =>
            LET p == ent[e]
            IN  /\ p.price.t = "num" /\ p.price.n >= 0
                /\ find(table', p.id.n) =
                      {Row(p.id.n, p.name, p.description, p.price, p.available)}
                /\ ent'[e].id = p.id
                /\ Cardinality(table') = Cardinality(table)
                /\ Ids(table') = Ids(table)]_vars

\* an update of a persisted product has just succeeded, and its row holds
\* the price 0 that only a deserialized body gives
C2_Witness ==
    /\ last.op = "update"
    /\ last.outcome = "ok"
    /\ last.e \in Persistent(ent)
    /\ Cardinality(table) = 2
    /\ ent[last.e].price = Num(0)

\* C3: after a successful delete() of a persisted product, find(id) returns
\* nothing, all() holds no row of that id, and every other row that was
\* stored is still in all().
C3_DeleteRemovesRow ==
    [][\A e \in Ent :
         (Did("delete", e) /\ last'.outcome = "ok") =>
            LET k == ent[e].id.n
            IN  /\ ent[e].st = "persistent"
                /\ find(table', k) = {}
                /\ \A r \in all(table') : r.id # k
                /\ \A r \in table : r.id # k => \E r2 \in all(table') : r2.id = r.id]_vars

\* a delete has just succeeded and another row is still stored
C3_Witness ==
    /\ last.op = "delete"
    /\ last.outcome = "ok"
    /\ table # {}

\* C4: the id of a stored product never changes.  A persistent entity keeps
\* its id and its row through every step that leaves it persistent; a row
\* disappears only by a successful delete() of its entity; a row appears
\* only by a successful create(), with the id of the store's sequence;
\* deserialize leaves the id of its entity as it was.
C4_IdIsStable ==
    [][/\ \A e \in Ent :
            (ent[e].st = "persistent" /\ ent'[e].st = "persistent") =>
               (ent'[e].id = ent[e].id /\ HasRow(table', ent[e].id.n))
       /\ \A r \in table :
            \/ HasRow(table', r.id)
            \/ /\ last'.op = "delete" /\ last'.outcome = "ok"
               /\ last'.e \in Ent /\ ent[last'.e].id = Num(r.id)
       /\ \A r \in table' :
            \/ HasRow(table, r.id)
            \/ /\ last'.op = "create" /\ last'.outcome = "ok"
               /\ r.id = nextId
               /\ last'.e \in Ent /\ ent'[last'.e].id = Num(r.id)
       /\ \A e \in Ent : Did("deserialize", e) => ent'[e].id = ent[e].id]_vars

\* a body that carries the id 2 has just been deserialized, without error,
\* into the persisted product of id 1
C4_Witness ==
    /\ last.op = "deserialize"
    /\ last.outcome = "ok"
    /\ last.data.id = Num(2)
    /\ last.e \in Persistent(ent)
    /\ ent[last.e].id = Num(1)
    /\ HasRow(table, 1)

\* C5: update() on an entity whose id is unset fails with
\* DataValidationError("Update called with empty ID field") and leaves the
\* table as it was.
C5_UpdateWithoutId ==
    [][\A e \in Ent :
         (Did("update", e) /\ ent[e].st # "none" /\ ent[e].id.t = "none") =>
            /\ last'.outcome = DVE
            /\ last'.msg = "Update called with empty ID field"
            /\ table' = table]_vars

\* update has just been refused for an entity without id, while a row is
\* stored and another entity has changes that a commit would write
C5_Witness ==
    /\ last.op = "update"
    /\ last.msg = "Update called with empty ID field"
    /\ ent[last.e].id.t = "none"
    /\ Modified(table, ent) # {}

\* C6: update() of a persisted product whose price is null or negative fails
\* with DataValidationError and leaves the table as it was; with the price 0
\* the price check lets the update through to the commit.
C6_UpdatePriceCheck ==
    [][\A e \in Ent :
         (Did("update", e) /\ ent[e].st = "persistent") =>
            LET price == ent[e].price
            IN  /\ (price.t = "none" \/ (price.t = "num" /\ price.n < 0)) =>
                      /\ last'.outcome = DVE
                      /\ last'.msg = "Price must be a positive number"
                      /\ table' = table
                /\ price = Num(0) =>
                      /\ last'.msg # "Price must be a positive number"
                      /\ last'.outcome = "ok" \/ last'.rolledBack
                      /\ last'.outcome = "ok" =>
                            \E r \in find(table', ent[e].id.n) : r.price = Num(0)]_vars

\* update has just been refused for a persisted product with a negative
\* price, whose row holds another price
C6_Witness ==
    /\ last.op = "update"
    /\ last.outcome = DVE
    /\ last.msg = "Price must be a positive number"
    /\ last.e \in Persistent(ent)
    /\ ent[last.e].price = Num(-1)
    /\ \E r \in find(table, ent[last.e].id.n) : r.price.n >= 0

\* the commit of the step raised
CommitRaised == last'.cause \in {"OperationalError", "DatabaseError"}

\* C7: when the commit raises inside create(), update() or delete(), the
\* session has been rolled back, the error is a DataValidationError made
\* from the cause, and the table is what it was before the operation: the
\* entity of a failed create is not stored and has no id, every persistent
\* entity shows the values of its row again.
C7_CommitFailureRollsBack ==
    [][(last'.op \in {"create", "update", "delete"} /\ CommitRaised) =>
          /\ last'.rolledBack
          /\ last'.outcome = DVE
          /\ last'.msg = last'.cause
          /\ table' = table
          /\ ent'[last'.e].st = ent[last'.e].st
          /\ (last'.op = "create" /\ ent'[last'.e].st = "transient") =>
                ent'[last'.e].id = NoneV
          /\ \A e \in Ent : ent'[e].st = "persistent" =>
                RowOfProduct(ent'[e]) \in table]_vars

\* the commit of a delete has just raised and the row is still stored
C7_Witness ==
    /\ last.op = "delete"
    /\ last.cause = "OperationalError"
    /\ last.rolledBack
    /\ last.e \in Persistent(ent)
    /\ HasRow(table, ent[last.e].id.n)
(***************************************************************************)
(* Properties of deserialize and serialize                                 *)
(***************************************************************************)
FieldKeys == {"name", "description", "available", "price"}

\* C8: deserialize(data) fails with DataValidationError when data is no
\* mapping, when one of name, description, available, price is absent from
\* it, and when available is present but no boolean; in every other case it
\* succeeds, and the entity then holds the four values of data.
C8_DeserializeRejects ==
    last.op = "deserialize" =>
       LET d == last.data
           bad == \/ d.kind # "dict"
                  \/ \E key \in FieldKeys : d[key] = Absent
                  \/ d.available.t # "bool"
       IN  /\ bad => last.outcome = DVE
           /\ ~bad => /\ last.outcome = "ok"
                       /\ \A key \in FieldKeys : ent[last.e][key] = d[key]

\* a body whose available is the string "true", with every key present,
\* has just been refused
C8_Witness ==
    /\ last.op = "deserialize"
    /\ last.outcome = DVE
    /\ last.data.kind = "dict"
    /\ last.data.available = Str("true")
    /\ \A key \in FieldKeys : last.data[key] # Absent

\* the products whose serialization is among the bodies
Sources ==
    { Product(st, id, name, Str("d"), price, available) :
        st \in {"transient", "persistent"},
        id \in {NoneV, Num(2)},
        name \in {Str(""), Str("a")},
        price \in {Num(0), Num(1)},
        available \in {NoneV, Bool(TRUE), Bool(FALSE), Str("true")} }

Fresh == Construct(Dict(Absent, Absent, Absent, Absent, Absent))

\* C9: for every product x whose available is a boolean, deserializing
\* serialize(x) into a fresh Product succeeds and gives an entity with the
\* name, description, price and available of x and with its id still unset.
C9_RoundTrip ==
    [][\A x \in Sources :
         ( /\ last'.op = "deserialize"
           /\ last'.data = serialize(x)
           /\ x.available.t = "bool"
           /\ ent[last'.e] = Fresh ) =>
            LET y == ent'[last'.e]
            IN  /\ last'.outcome = "ok"
                /\ y.name = x.name
                /\ y.description = x.description
                /\ y.price = x.price
                /\ y.available = x.available
                /\ y.id = NoneV]_vars

\* the serialization of a product with id 2 has just been deserialized and
\* the entity has no id
C9_Witness ==
    /\ last.op = "deserialize"
    /\ last.outcome = "ok"
    /\ last.data.id = Num(2)
    /\ \E x \in Sources : last.data = serialize(x) /\ x.available.t = "bool"
    /\ ent[last.e].id = NoneV
    /\ ent[last.e].name = Str("a")

(***************************************************************************)
(* Properties of the queries                                               *)
(***************************************************************************)
\* the key is in args with a value that is not None
Present(v) == v # Absent /\ v.t # "none"

\* the rows that a filter on one key keeps
FilterOf(tbl, key, v) ==
    CASE key = "name" -> find_by_name(tbl, v)
      [] key = "description" -> find_by_description(tbl, v)
      [] key = "available" -> find_by_availability(tbl, v)
      [] OTHER -> find_by_price(tbl, v)

\* C10 as stated: find_by_args(args) returns the stored rows that satisfy
\* the equality of every key that is present and not null in args.
C10_AllPresentKeysFilter ==
    last.op = "find_by_args" =>
       last.rows = {r \in table :
                      \A key \in FieldKeys :
                         Present(last.data[key]) => r[key] = last.data[key]}

\* the filter of the key is applied: available and price when present and
\* not null, name and description when moreover not the empty string
Applied(key, v) ==
    /\ Present(v)
    /\ key \in {"name", "description"} => v # Str("")

\* C10: find_by_args(args) returns the stored rows that satisfy the equality
\* of every applied key, which is the intersection of the single filters of
\* these keys; a name or description that is the empty string is not
\* applied; with no key applied it returns every row.
C10_AppliedKeysFilter ==
    last.op = "find_by_args" =>
       LET args == last.data
           keys == {key \in FieldKeys : Applied(key, args[key])}
       IN  /\ last.rows = {r \in table : \A key \in keys : r[key] = args[key]}
           /\ last.rows = {r \in all(table) :
                             \A key \in keys : r \in FilterOf(table, key, args[key])}
           /\ keys = {} => last.rows = all(table)

\* a query on name, price and available has just returned one of two rows
C10_Witness ==
    /\ last.op = "find_by_args"
    /\ last.data.name = Str("a")
    /\ last.data.price = Num(0)
    /\ last.data.available = Bool(FALSE)
    /\ Cardinality(table) = 2
    /\ Cardinality(last.rows) = 1

NameRefused(v) == v.t = "none" \/ (v.t = "str" /\ Len(v.s) > MaxNameLen)

\* create() or update() is called on e and may write its row
Persists(e) ==
    \/ Did("create", e)
    \/ Did("update", e) /\ ent[e].st = "persistent"

\* C12 as stated: every stored row has a name that is a non-empty string of
\* at most 63 characters, and no create() or update() of a product whose
\* name is missing, empty or over-long leaves a row with that name.
C12_NamesNonEmpty ==
    [][/\ \A r \in table' :
            /\ r.name.t = "str"
            /\ Len(r.name.s) >= 1
            /\ Len(r.name.s) <= MaxNameLen
       /\ \A e \in Ent :
            (Persists(e) /\ (NameRefused(ent[e].name) \/ ent[e].name = Str(""))) =>
               \A r \in table' : r.name # ent[e].name]_vars

\* C12: every stored row has a name that is a string of at most 63
\* characters, which may be empty; a create() or update() of a product whose
\* name is missing or over-long fails and leaves the table as it was, so
\* that no row ever carries such a name.
C12_NamesWithinColumn ==
    [][/\ \A r \in table' :
            /\ r.name.t = "str"
            /\ Len(r.name.s) <= MaxNameLen
       /\ \A e \in Ent :
            (Persists(e) /\ NameRefused(ent[e].name)) =>
               /\ last'.outcome # "ok"
               /\ table' = table
               /\ \A r \in table' : r.name # ent[e].name]_vars

\* the create of a product with a name of 64 characters has just been
\* refused, while a row with the empty name is stored
C12_Witness ==
    /\ last.op = "create"
    /\ last.outcome = DVE
    /\ ent[last.e].name = Str(LongName)
    /\ \E r \in table : r.name = Str("")

(***************************************************************************)
(* Properties of the constructor                                           *)
(***************************************************************************)
\* C20 as stated: a product constructed without an available value has id
\* unset and available equal to true, and the row stored by a subsequent
\* create() has available = true.
C20_ConstructedAvailable ==
    [][\A e \in Ent :
         /\ (Did("new", e) /\ last'.data.available = Absent) =>
               /\ ent'[e].id = NoneV
               /\ ent'[e].available = Bool(TRUE)
         /\ (Did("create", e) /\ last'.outcome = "ok" /\ ent[e].available = NoneV) =>
               \E r \in find(table', ent'[e].id.n) : r.available = Bool(TRUE)]_vars

\* C20: a product constructed without an available value has available
\* unset (None) in memory, and its id is the one given to the constructor,
\* unset when none was given; a subsequent successful create() gives it a
\* new id, and the stored row and the entity then have available = true.
C20_DefaultAtInsert ==
    [][\A e \in Ent :
         /\ (Did("new", e) /\ last'.data.available = Absent) =>
               /\ ent'[e].st = "transient"
               /\ ent'[e].available = NoneV
               /\ ent'[e].id = Arg(last'.data.id)
         /\ (Did("create", e) /\ last'.outcome = "ok" /\ ent[e].available = NoneV) =>
               /\ ent'[e].id.t = "num"
               /\ ent'[e].id.n \notin Ids(table)
               /\ ent'[e].available = Bool(TRUE)
               /\ \E r \in find(table', ent'[e].id.n) : r.available = Bool(TRUE)]_vars

\* a product that was constructed with the id 2 and without available has
\* just been created: it has the id 1 and its row is available
C20_Witness ==
    /\ last.op = "create"
    /\ last.outcome = "ok"
    /\ ent[last.e].name = Str("a")
    /\ ent[last.e].price = Num(1)
    /\ ent[last.e].id = Num(1)
    /\ table = {Row(1, Str("a"), Str("d"), Num(1), Bool(TRUE))}

(***************************************************************************)
(* Properties of from_args                                                 *)
(***************************************************************************)
\* args that deserialize accepts and whose values the columns accept
ValidArgs(args) ==
    /\ args.kind = "dict"
    /\ \A key \in FieldKeys : args[key] # Absent
    /\ IsBool(args.available)
    /\ NameColumnOK(args.name)
    /\ DescriptionColumnOK(args.description)
    /\ PriceColumnOK(args.price)

\* C19: from_args(args) with valid args, when the storage commits (it does
\* not fail, and no other object of the session holds a change that the
\* database refuses), stores exactly one new row built from args and returns
\* one product, which has a new id and is the row that find(id) returns;
\* whenever from_args does not return, it raises DataValidationError and
\* the table is what it was.
C19_FromArgs ==
    [][\A args \in Payloads :
         (last'.op = "from_args" /\ last'.data = args) =>
            /\ (/\ ValidArgs(args)
                /\ last'.msg # CommitCause(TRUE)
                /\ FlushOK(table, ent, NoEnt)) =>
                  /\ last'.outcome = "ok"
                  /\ Cardinality(last'.rows) = 1
                  /\ \E r \in last'.rows :
                        /\ r.id \notin Ids(table)
                        /\ find(table', r.id) = {r}
                        /\ Ids(table') = Ids(table) \cup {r.id}
                        /\ \A key \in FieldKeys : r[key] = args[key]
                        /\ last'.e \in Ent
                        /\ ent'[last'.e] = Loaded(r)
            /\ last'.outcome # "ok" =>
                  /\ last'.outcome = DVE
                  /\ last'.rows = {}
                  /\ table' = table
            /\ ~ValidArgs(args) => last'.outcome = DVE]_vars

\* from_args has just stored a second row, from args with the price 0
C19_Witness ==
    /\ last.op = "from_args"
    /\ last.outcome = "ok"
    /\ last.data.price = Num(0)
    /\ Cardinality(table) = 2
    /\ \E r \in last.rows : r.id = 2 /\ r \in table

(***************************************************************************)
(* Properties of the facade                                                *)
(***************************************************************************)
\* sub occurs in s
Contains(s, sub) ==
    \E i \in 1..(Len(s) - Len(sub) + 1) : SubSeq(s, i, i + Len(sub) - 1) = sub

\* C13: a POST of a valid product body, when the storage commits, responds
\* 201 with a Location that names the new resource and a body equal to the
\* new entity's serialize(), whose id is not null; a GET of that Location
\* right afterwards responds 200 with the posted name, description, price
\* and available and with the assigned id.
C13_PostThenGet ==
    [][(last'.op = "POST" /\ ValidArgs(last'.data) /\ ~last'.fails) =>
          LET k == RouteId(last'.location)
              data == last'.data
              got == ProductResource_get(table', k)
          IN  /\ last'.status = 201
              /\ last'.shape = "object"
              /\ k \notin Ids(table)
              /\ table' = table \cup find(table', k)
              /\ Cardinality(find(table', k)) = 1
              /\ last'.body.id = Num(k)
              /\ last'.body = serialize(Found(table', k))
              /\ got.status = 200
              /\ got.body = Dict(Num(k), data.name, data.description,
                                 data.available, data.price)]_vars

\* a second product has just been posted and its Location names the id 2
C13_Witness ==
    /\ last.op = "POST"
    /\ last.status = 201
    /\ last.location = "/api/products/2"
    /\ last.body.id = Num(2)
    /\ Cardinality(table) = 2

\* C14: find(id) returns the stored row of that id when there is one and
\* nothing otherwise; a GET for an id responds 200 with the serialize() of
\* the row exactly when a row of that id is stored, and otherwise 404 with
\* a message that contains the id and the phrase "was not found".
C14_GetOrNotFound ==
    last.op = "GET" =>
       LET k == last.id
       IN  /\ last.status = 200 <=> HasRow(table, k)
           /\ HasRow(table, k) =>
                 /\ find(table, k) = {RowAt(table, k)}
                 /\ last.shape = "object"
                 /\ last.body = serialize(Loaded(RowAt(table, k)))
           /\ ~HasRow(table, k) =>
                 /\ find(table, k) = {}
                 /\ last.status = 404
                 /\ Contains(last.message, ToString(k))
                 /\ Contains(last.message, "was not found")

\* a GET of the id 1, which was deleted, has just responded 404 while the
\* product of id 2 is stored
C14_Witness ==
    /\ last.op = "GET"
    /\ last.id = 1
    /\ last.status = 404
    /\ Ids(table) = {2}

\* C15: a DELETE of any id, when the storage commits, responds 204 with an
\* empty body whether or not a product of that id is stored; it removes the
\* row of that id and no other, so the table is unchanged when there was
\* none; the same DELETE issued again responds 204 and leaves the table as
\* the first one left it.
C15_DeleteIdempotent ==
    [][(last'.op = "DELETE" /\ ~last'.fails) =>
          LET k == last'.id
              again == ProductResource_delete(table', nextId', k, FALSE)
          IN  /\ last'.status = 204
              /\ last'.shape = "empty"
              /\ last'.body = NoData /\ last'.items = {}
              /\ ~HasRow(table, k) => table' = table
              /\ table' = {r \in table : r.id # k}
              /\ again.resp.status = 204
              /\ again.table = table']_vars

\* a DELETE of the id 1 has just responded 204, the id 1 was given out
\* before and is not stored, and another product is stored
C15_Witness ==
    /\ last.op = "DELETE"
    /\ last.id = 1
    /\ last.status = 204
    /\ Ids(table) = {2}

\* C16: whenever deserialize, create or update raises DataValidationError
\* while a POST or a PUT is handled, the response has status 400 and
\* carries the text of the error, and the table is what it was before the
\* request.
C16_ValidationErrorIs400 ==
    [][(last'.op \in {"POST", "PUT"} /\ last'.raised.by # "") =>
          /\ last'.status = 400
          /\ Contains(last'.message, last'.raised.msg)
          /\ last'.message = last'.raised.msg
          /\ table' = table]_vars

\* a PUT with a negative price has just been refused by update, and the row
\* still has its price
C16_Witness ==
    /\ last.op = "PUT"
    /\ last.raised.by = "update"
    /\ last.status = 400
    /\ last.message = "Price must be a positive number"
    /\ last.data.price = Num(0 - 1)
    /\ \E r \in find(table, last.id) : r.price = Num(0)

\* the serialized stored products that satisfy the predicate of the key
Matching(tbl, key, v) ==
    {serialize(Loaded(r)) : r \in {x \in tbl : x[key] = v}}

\* the number a price parameter spells: "0" and "1" in the query strings
Spelled(v) == IF v = Str("0") THEN Num(0) ELSE Num(1)

\* C17 as stated: with one filter supplied on the list endpoint (name=v,
\* description=v or price=v, price a number) the response is 200 with
\* exactly the serialized stored products whose field equals v, and with no
\* filter supplied it is exactly all stored products.
C17_SingleFilter ==
    last.op = "LIST" =>
       LET q == last.query
           listed == last.status = 200 /\ last.shape = "list"
       IN  /\ (q.name # Absent /\ q.description = Absent
                 /\ q.available = Absent /\ q.price = Absent) =>
                    listed /\ last.items = Matching(table, "name", q.name)
           /\ (q.name = Absent /\ q.description # Absent
                 /\ q.available = Absent /\ q.price = Absent) =>
                    listed /\ last.items = Matching(table, "description", q.description)
           /\ (q.name = Absent /\ q.description = Absent
                 /\ q.available = Absent /\ q.price \in {Str("0"), Str("1")}) =>
                    listed /\ last.items = Matching(table, "price", Spelled(q.price))
           /\ q = NoQuery =>
                    listed /\ last.items = {serialize(Loaded(r)) : r \in table}

\* the spellings of true and false in the query strings
SpellsTrue(v) == v \in {Str("true"), Str("True"), Str("TRUE")}

SpellsFalse(v) == v \in {Str("false"), Str("False"), Str("FALSE")}

\* the response lists the stored products of this availability, or it is a
\* 400 without a list when the parameter spells neither true nor false
AvailableAnswer(raw) ==
    /\ SpellsTrue(raw) =>
          /\ last.status = 200 /\ last.shape = "list"
          /\ last.items = Matching(table, "available", Bool(TRUE))
    /\ SpellsFalse(raw) =>
          /\ last.status = 200 /\ last.shape = "list"
          /\ last.items = Matching(table, "available", Bool(FALSE))
    /\ (~SpellsTrue(raw) /\ ~SpellsFalse(raw)) =>
          /\ last.status = 400
          /\ last.shape = "empty" /\ last.items = {}

Reporting == {"deserialize", "create", "update", "delete"}

\* C21: every failure of deserialize(), create(), update() or delete() is
\* reported as DataValidationError: whatever the input mapping and the state
\* of the entity (a price that is no number included), no other kind of
\* exception escapes these operations.
C21_OnlyDataValidationError ==
    [][last'.op \in Reporting => last'.outcome \in {"ok", DVE}]_vars

\* C22: create(), update() or delete() called on an entity never changes the
\* stored row of a different persisted entity, also when that entity has
\* been mutated in memory and not yet updated, or its update() was refused.
C22_OnlyOwnRowWritten ==
    [][\A a \in Ent : \A b \in Ent \ {a} :
          ( /\ last'.op \in {"create", "update", "delete"}
            /\ last'.e = a
            /\ b \in Persistent(ent)
            /\ HasRow(table, ent[b].id.n) ) =>
          RowAt(table', ent[b].id.n) = RowAt(table, ent[b].id.n)]_vars

\* the fields that deserialize assigns
Assigned == {"name", "description", "available", "price"}

\* C24: whenever deserialize(data) fails with DataValidationError, the name,
\* description, available and price of the entity are what they were before
\* the call.
C24_DeserializeAllOrNothing ==
    [][\A e \in Ent :
          (Did("deserialize", e) /\ last'.outcome = DVE) =>
          \A f \in Assigned : ent'[e][f] = ent[e][f]]_vars

(***************************************************************************)
(* Tests of the arguments of find_by_args                                  *)
(***************************************************************************)
\* the argument passes an explicit not-null check
NotNull(v) == Get(v).t # "none"

\* the rows that agree with the argument of every key in keys
Agreeing(tbl, args, keys) == {r \in tbl : \A key \in keys : r[key] = args[key]}

\* C23 as stated: in find_by_args, available is tested with a not-null check,
\* so available=False filters, while name, description and price are tested
\* by truthiness, so an empty name or description or a price of 0 does not
\* restrict the result.
C23_PriceByTruthiness ==
    last.op = "find_by_args" =>
       LET args == last.data
           tested == {key \in FieldKeys :
                        IF key = "available" THEN NotNull(args[key])
                        ELSE Truthy(Get(args[key]))}
       IN  last.rows = Agreeing(table, args, tested)

\* C23: in find_by_args, available and price are tested with a not-null
\* check, so available=False and a price of 0 filter, while name and
\* description are tested by truthiness, so an empty name or description
\* does not restrict the result.
C23_PriceByNotNull ==
    last.op = "find_by_args" =>
       LET args == last.data
           tested == {key \in FieldKeys :
                        IF key \in {"available", "price"} THEN NotNull(args[key])
                        ELSE Truthy(Get(args[key]))}
       IN  /\ last.rows = Agreeing(table, args, tested)
           /\ args.available = Bool(FALSE) =>
                 \A r \in last.rows : r.available = Bool(FALSE)
           /\ args.price = Num(0) => \A r \in last.rows : r.price = Num(0)
           /\ ( /\ ~NotNull(args.available)
                /\ ~NotNull(args.price)
                /\ args.name = Str("")
                /\ args.description \in {Absent, Str("")} ) => last.rows = table

\* a query with an empty name, available=False and a price of 0 has just
\* returned one of two stored rows, the other one being available at price 1
C23_Witness ==
    /\ last.op = "find_by_args"
    /\ last.data.name = Str("")
    /\ last.data.available = Bool(FALSE)
    /\ last.data.price = Num(0)
    /\ Cardinality(table) = 2
    /\ Cardinality(last.rows) = 1
    /\ \E r \in table : r.price = Num(1) /\ r.available = Bool(TRUE) /\ r.name = Str("a")

(***************************************************************************)
(* Concurrent requests on one product id, each in its own session, on a   *)
(* database that runs the transactions READ COMMITTED                      *)
(***************************************************************************)
\* the columns that an object maps besides its key
Columns == {"name", "description", "price", "available"}

\* the columns of the UPDATE that a flush emits for an object: those whose
\* attribute differs from the value that the session loaded
Changed(loaded, p) == {c \in Columns : p[c] # loaded[c]}

\* the row after UPDATE ... SET these columns ... WHERE id = r.id
Updated(r, p, cols) == [c \in DOMAIN r |-> IF c \in cols THEN p[c] ELSE r[c]]

\* a flush that inserts the row when its UPDATE matches none
FlushOwnUpsert(tbl, loaded, p) ==
    LET cols == Changed(loaded, p)
        k == loaded.id.n
    IN  IF cols = {} THEN [ok |-> TRUE, table |-> tbl]
        ELSE IF ~HasRow(tbl, k)
        THEN [ok |-> TRUE, table |-> tbl \cup {RowOfProduct(p)}]
        ELSE LET r == Updated(RowAt(tbl, k), p, cols)
             IN  IF ColumnsOK(r)
                 THEN [ok |-> TRUE, table |-> (tbl \ {RowAt(tbl, k)}) \cup {r}]
                 ELSE [ok |-> FALSE, table |-> tbl]

\* the flush and commit of a session that holds one loaded object: no
\* UPDATE when no attribute changed; an UPDATE that matches no row raises
\* StaleDataError; the UPDATE writes the changed columns of the row as it
\* is stored at that moment
FlushOwn(tbl, loaded, p) ==
    LET cols == Changed(loaded, p)
        k == loaded.id.n
    IN  IF cols = {} THEN [ok |-> TRUE, table |-> tbl]
        ELSE IF ~HasRow(tbl, k) THEN [ok |-> FALSE, table |-> tbl]
        ELSE LET r == Updated(RowAt(tbl, k), p, cols)
             IN  IF ColumnsOK(r)
                 THEN [ok |-> TRUE, table |-> (tbl \ {RowAt(tbl, k)}) \cup {r}]
                 ELSE [ok |-> FALSE, table |-> tbl]

\* Product.update of the object p that its own session loaded as `loaded`
updateOwn(tbl, loaded, p) ==
    LET f == FlushOwn(tbl, loaded, p)
    IN  IF IdUnset(p)
        THEN [table |-> tbl, out |-> Raised("Update called with empty ID field")]
        ELSE IF p.price.t # "none" /\ FloatRaises(p.price)
        THEN [table |-> tbl, out |-> Escaped("ValueError")]
        ELSE IF PriceRefused(p.price)
        THEN [table |-> tbl, out |-> Raised("Price must be a positive number")]
        ELSE [table |-> f.table,
              out |-> IF f.ok THEN Returned ELSE RolledBack(CommitCause(FALSE))]

\* the bodies of the concurrent PUT requests: two valid ones that differ in
\* every field, one with a negative price, one whose available is a string
PutBodies ==
    { Dict(Num(2), Str("b"), Str("d"), Bool(FALSE), Num(0)),
      Dict(Absent, Str("a"), Str("e"), Bool(TRUE), Num(1)),
      Dict(Absent, Str("a"), Str("d"), Bool(TRUE), Num(-1)),
      Dict(Absent, Str("b"), Str("d"), Str("true"), Num(1)) }

\* a request: where its handler stands, and the status of its response
InFlight(pc, data, status) == [pc |-> pc, body |-> data, status |-> status]

\* two PUT requests, one DELETE and one GET for the product id
Racing(op, product_id, put, del, get) ==
    [op |-> op, id |-> product_id, put |-> put, del |-> del, get |-> get]

InitRace ==
    /\ table \in Tables(1)
    /\ nextId = 2
    /\ ent = [e \in Ent |-> Unbound]
    /\ last = Racing("init", 1, [e \in Ent |-> InFlight("start", NoData, 0)],
                     InFlight("start", NoData, 0),
                     [pc |-> "start", status |-> 0, after |-> FALSE])

\* product = Product.find(product_id); if not product: abort(404)
PutFind(e, data) ==
    /\ last.put[e].pc = "start"
    /\ IF find(table, last.id) = {}
       THEN /\ last' = [last EXCEPT !.op = "PUT",
                                    !.put[e] = InFlight("done", data, 404)]
            /\ UNCHANGED ent
       ELSE /\ last' = [last EXCEPT !.op = "PUT",
                                    !.put[e] = InFlight("found", data, 0)]
            /\ ent' = [ent EXCEPT ![e] = Found(table, last.id)]
    /\ UNCHANGED <<table, nextId>>

\* product.deserialize(data); product.update()
PutUpdate(e) ==
    /\ last.put[e].pc = "found"
    /\ LET d == deserialize(ent[e], last.put[e].body)
           u == updateOwn(table, ent[e], d.p)
       IN  IF d.out.outcome # "ok"
           THEN /\ last' = [last EXCEPT !.op = "PUT", !.put[e].pc = "done",
                                        !.put[e].status = Failed(d.out).status]
                /\ ent' = [ent EXCEPT ![e] = d.p]
                /\ UNCHANGED table
           ELSE IF u.out.outcome # "ok"
           THEN /\ last' = [last EXCEPT !.op = "PUT", !.put[e].pc = "done",
                                        !.put[e].status = Failed(u.out).status]
                /\ ent' = [ent EXCEPT ![e] = d.p]
                /\ UNCHANGED table
           ELSE /\ last' = [last EXCEPT !.op = "PUT", !.put[e].pc = "committed"]
                /\ ent' = [ent EXCEPT ![e] = d.p]
                /\ table' = u.table
    /\ UNCHANGED nextId

\* return product.serialize(): the commit has expired the object, reading
\* its attributes loads the row again, ObjectDeletedError when it is gone
PutReply(e) ==
    /\ last.put[e].pc = "committed"
    /\ IF HasRow(table, last.id)
       THEN /\ last' = [last EXCEPT !.op = "PUT", !.put[e].pc = "done",
                                    !.put[e].status = 200]
            /\ ent' = [ent EXCEPT ![e] = Loaded(RowAt(table, last.id))]
       ELSE /\ last' = [last EXCEPT !.op = "PUT", !.put[e].pc = "done",
                                    !.put[e].status =
                                       Unhandled("ObjectDeletedError").status]
            /\ UNCHANGED ent
    /\ UNCHANGED <<table, nextId>>

\* product = Product.find(product_id), and 204 when there is none
DeleteFind ==
    /\ last.del.pc = "start"
    /\ last' = [last EXCEPT !.op = "DELETE",
                            !.del = IF find(table, last.id) = {}
                                    THEN InFlight("done", NoData, 204)
                                    ELSE InFlight("found", NoData, 0)]
    /\ UNCHANGED <<table, nextId, ent>>

\* product.delete(); return "", 204
DeleteCommit ==
    /\ last.del.pc = "found"
    /\ table' = Deleted(table, last.id)
    /\ last' = [last EXCEPT !.op = "DELETE", !.del = InFlight("done", NoData, 204)]
    /\ UNCHANGED <<nextId, ent>>

\* a GET for the product id, at any moment
GetLater ==
    /\ last.get.pc = "start"
    /\ last' = [last EXCEPT !.op = "GET",
                            !.get = [pc |-> "done",
                                     status |-> ProductResource_get(table, last.id).status,
                                     after |-> last.del.pc = "done"]]
    /\ UNCHANGED <<table, nextId, ent>>

NextRace ==
    \/ \E e \in Ent, data \in PutBodies : PutFind(e, data)
    \/ \E e \in Ent : PutUpdate(e)
    \/ \E e \in Ent : PutReply(e)
    \/ DeleteFind
    \/ DeleteCommit
    \/ GetLater

SpecRace == InitRace /\ [][NextRace]_vars

(***************************************************************************)
(* Properties of the concurrent requests                                   *)
(***************************************************************************)
\* the stored row has the four fields of the body
IsBody(r, data) == \A c \in Columns : r[c] = data[c]

\* C25: when two PUT requests for the same product id run concurrently and
\* both respond 200, the stored product has its name, description, price
\* and available all equal to the body of one single request, never a
\* mixture of the fields of the two bodies.
C25_LastWriterWins ==
    (\A e \in Ent : last.put[e].status = 200) =>
       \A r \in find(table, last.id) : \E e \in Ent : IsBody(r, last.put[e].body)

\* C26: under every interleaving of a DELETE request with concurrent PUT
\* requests on the same id, once the DELETE has responded 204 no stored row
\* has that id, and a GET for that id handled later responds 404.
C26_NoResurrection ==
    /\ last.del.status = 204 => ~HasRow(table, last.id)
    /\ (last.get.pc = "done" /\ last.get.after) => last.get.status = 404

\* a PUT with a valid body found the product, the DELETE then removed it
\* and responded 204, the PUT was refused as its UPDATE matched no row,
\* and a GET handled after that responded 404
C26_Witness ==
    /\ last.del.status = 204
    /\ last.put["e1"].body = Dict(Num(2), Str("b"), Str("d"), Bool(FALSE), Num(0))
    /\ last.put["e1"].pc = "done"
    /\ last.put["e1"].status = 400
    /\ last.put["e2"].status = 200
    /\ last.get.status = 404
    /\ last.get.after

(***************************************************************************)
(* Properties of the list endpoint with several parameters                 *)
(***************************************************************************)
\* the parameters that the query string of the request supplies
Supplied(q) == {key \in FieldKeys : q[key] # Absent}

\* C27: when a list request supplies more than one of description, name,
\* available and price, exactly one filter is applied, the first supplied
\* one in the order description, name, available, price, and the response
\* is the full result of that single filter, the other parameters being
\* ignored.  (Read for the requests whose price parameter, if any, is a
\* number.)
C27_FirstSuppliedFilter ==
    ( /\ last.op = "LIST"
      /\ Cardinality(Supplied(last.query)) > 1
      /\ last.query.price \in {Absent, Str("0"), Str("1")} ) =>
       LET q == last.query
           listed == last.status = 200 /\ last.shape = "list"
       IN  IF q.description # Absent
           THEN listed /\ last.items = Matching(table, "description", q.description)
           ELSE IF q.name # Absent
           THEN listed /\ last.items = Matching(table, "name", q.name)
           ELSE AvailableAnswer(q.available)
====
